---------------------------- MODULE Spec2Model ----------------------------
(***************************************************************************)
(* Future-value calculator for a monthly savings plan (src/app.py).        *)
(*                                                                         *)
(* The Python floats of the program are modelled as exact rationals        *)
(* [n |-> numerator, d |-> denominator], d > 0, in lowest terms, so that   *)
(* equal values are equal records.  Binary64 rounding is not modelled:     *)
(* every property below is a property of the real-valued functions the     *)
(* code denotes.  A raised ZeroDivisionError is the value with d = 0.      *)
(*                                                                         *)
(* Three specifications:                                                   *)
(*   Spec     one run of the Streamlit script, top to bottom, and reruns   *)
(*   SpecFV   fv_annuity_ordinary / fv_annuity applied to drawn inputs     *)
(*   SpecFmt  fmt_rp applied to drawn inputs                               *)
(***************************************************************************)
EXTENDS Integers, Sequences, FiniteSets, TLC

VARIABLES
    \* --- the script run (Spec): widgets, derived values, tables
    pc, P, durasi_unit, years, months, period_choice, r_percent, is_due,
    r_month, FV, principal, interest, metrics, records, df_yearly,
    progress, df_progress_tbl,
    \* --- the helpers applied to drawn arguments (SpecFV)
    fv_pc, args, ret_ordinary, ret_fv, prev_fv,
    \* --- fmt_rp applied to a drawn argument (SpecFmt)
    fmt_pc, fmt_arg, fmt_ret

scriptVars == <<pc, P, durasi_unit, years, months, period_choice, r_percent,
                is_due, r_month, FV, principal, interest, metrics, records,
                df_yearly, progress, df_progress_tbl>>
fvVars == <<fv_pc, args, ret_ordinary, ret_fv, prev_fv>>
fmtVars == <<fmt_pc, fmt_arg, fmt_ret>>
vars == <<scriptVars, fvVars, fmtVars>>

(* ----------------------------- bounds --------------------------------- *)
\* largest monthly deposit drawn
MaxP == 3
\* largest duration in months drawn in "Bulan" mode
MaxMonths == 25
\* largest duration in years drawn in "Tahun" mode
MaxYears == 2
\* largest period count for which the helpers are applied in SpecFV
MaxN == 4
\* numerators are kept below this so that every intermediate product fits
IntLimit == 2^30

(* ------------------- float arithmetic, as rationals ------------------- *)
Abs(x) == IF x < 0 THEN -x ELSE x

RECURSIVE Gcd(_, _)
Gcd(a, b) == IF b = 0 THEN a ELSE Gcd(b, a % b)

Lcm(a, b) == (a \div Gcd(a, b)) * b

\* the value n/d (d # 0) in lowest terms with a positive denominator
Rat(n, d) ==
    LET g == Gcd(Abs(n), Abs(d))
        s == IF d < 0 THEN -1 ELSE 1
    IN  [n |-> (s * n) \div g, d |-> (s * d) \div g]

FromInt(i) == [n |-> i, d |-> 1]
Zero == FromInt(0)
One == FromInt(1)

\* the exception raised by a float division by zero
ZeroDivisionError == [n |-> 0, d |-> 0]
IsRaised(x) == x.d = 0

RAdd(x, y) ==
    LET l == Lcm(x.d, y.d)
    IN  Rat(x.n * (l \div x.d) + y.n * (l \div y.d), l)

RSub(x, y) ==
    LET l == Lcm(x.d, y.d)
    IN  Rat(x.n * (l \div x.d) - y.n * (l \div y.d), l)

RMul(x, y) ==
    LET g1 == Gcd(Abs(x.n), y.d)
        g2 == Gcd(Abs(y.n), x.d)
    IN  Rat((x.n \div g1) * (y.n \div g2), (x.d \div g2) * (y.d \div g1))

RDiv(x, y) ==
    IF y.n = 0 THEN ZeroDivisionError
    ELSE RMul(x, Rat(y.d, y.n))

RECURSIVE IPow(_, _)
IPow(b, e) == IF e = 0 THEN 1 ELSE b * IPow(b, e - 1)

\* x ** k for an integer k >= 0; a power of a fraction in lowest terms is
\* in lowest terms
RPow(x, k) == [n |-> IPow(x.n, k), d |-> IPow(x.d, k)]

RLt(x, y) ==
    LET l == Lcm(x.d, y.d)
    IN  x.n * (l \div x.d) < y.n * (l \div y.d)

RLe(x, y) == x = y \/ RLt(x, y)

\* bound helper: b^e <= lim, decided without forming b^e
RECURSIVE PowFits(_, _, _)
PowFits(b, e, lim) ==
    IF e = 0 THEN lim >= 1
    ELSE lim \div b >= 1 /\ PowFits(b, e - 1, lim \div b)

\* bound: the closed form at rate r and n periods stays within IntLimit
Representable(r, n) ==
    \/ r.n = 0
    \/ PowFits(Abs(r.n) + r.d, n + 2, IntLimit \div ((MaxP + 1) * r.d))

(* ----------------------------- helpers -------------------------------- *)
\* mutant: the zero-rate branch is missing
fv_annuity_ordinary_nobranch(p, r, n) ==
    RDiv(RMul(p, RSub(RPow(RAdd(One, r), n), One)), r)

\* mutant: the exponent is off by one
fv_annuity_ordinary_offbyone(p, r, n) ==
    IF r = Zero THEN RMul(p, FromInt(n))
    ELSE RDiv(RMul(p, RSub(RPow(RAdd(One, r), n + 1), One)), r)

\* mutant: the exponent is missing
fv_annuity_ordinary_nopow(p, r, n) ==
    IF r = Zero THEN RMul(p, FromInt(n))
    ELSE RDiv(RMul(p, RSub(RAdd(One, r), One)), r)

fv_annuity_ordinary(p, r, n) ==
    IF r = Zero THEN RMul(p, FromInt(n))
    ELSE RDiv(RMul(p, RSub(RPow(RAdd(One, r), n), One)), r)

\* mutant: the due factor is dropped
fv_annuity_nodue(p, r, n, due) == fv_annuity_ordinary(p, r, n)

\* mutant: the due factor discounts instead of compounding
fv_annuity_discount(p, r, n, due) ==
    LET base == fv_annuity_ordinary(p, r, n)
    IN  IF due THEN RMul(base, RSub(One, r)) ELSE base

fv_annuity(p, r, n, due) ==
    LET base == fv_annuity_ordinary(p, r, n)
    IN  IF IsRaised(base) THEN base
        ELSE IF due THEN RMul(base, RAdd(One, r)) ELSE base

(* ------------- SpecFV: the helpers on drawn arguments ----------------- *)
\* deposits drawn for the helpers (the helpers accept any number)
DepositSet == {FromInt(i) : i \in -1 .. MaxP} \cup {Rat(5, 2)}
\* per-period rates drawn for the helpers
RateSet == {Rat(-1, 2), Zero, Rat(1, 24), Rat(1, 10), Rat(1, 2), One}

NotCalled == [due \in BOOLEAN |-> Zero]

FVIdle ==
    /\ fv_pc = "idle"
    /\ args = [P |-> Zero, r |-> Zero, n |-> 1]
    /\ ret_ordinary = Zero
    /\ ret_fv = NotCalled
    /\ prev_fv = NotCalled

FVInit ==
    /\ fv_pc = "ordinary"
    /\ args \in [P : DepositSet, r : RateSet, n : {1}]
    /\ ret_ordinary = Zero
    /\ ret_fv = NotCalled
    /\ prev_fv = NotCalled

\* base = fv_annuity_ordinary(p, r, n)
Apply_fv_annuity_ordinary ==
    /\ fv_pc = "ordinary"
    /\ ret_ordinary' = fv_annuity_ordinary(args.P, args.r, args.n)
    /\ fv_pc' = "annuity"
    /\ UNCHANGED <<args, ret_fv, prev_fv>>

\* fv_annuity(p, r, n, due) for both timings
Apply_fv_annuity ==
    /\ fv_pc = "annuity"
    /\ ret_fv' = [due \in BOOLEAN |-> fv_annuity(args.P, args.r, args.n, due)]
    /\ fv_pc' = "applied"
    /\ UNCHANGED <<args, ret_ordinary, prev_fv>>

\* the same deposit and rate, one period later
NextPeriod ==
    /\ fv_pc = "applied"
    /\ args.n < MaxN
    /\ Representable(args.r, args.n + 1)
    /\ args' = [args EXCEPT !.n = @ + 1]
    /\ prev_fv' = ret_fv
    /\ fv_pc' = "ordinary"
    /\ UNCHANGED <<ret_ordinary, ret_fv>>

FVNext ==
    \/ Apply_fv_annuity_ordinary
    \/ Apply_fv_annuity
    \/ NextPeriod

(* --------------------------- fmt_rp ----------------------------------- *)
\* A Python value is [t |-> type name, s |-> text, q |-> number]; text is a
\* sequence of one-character strings.  A float with a non-empty s is the
\* non-finite float of that name.
PyInt(i) == [t |-> "int", s |-> <<>>, q |-> FromInt(i)]
PyFloat(q) == [t |-> "float", s |-> <<>>, q |-> q]
PyStr(s) == [t |-> "str", s |-> s, q |-> Zero]
PyNone == [t |-> "NoneType", s |-> <<>>, q |-> Zero]
PyNonFinite(s) == [t |-> "float", s |-> s, q |-> Zero]

NaN == <<"n", "a", "n">>
Inf == <<"i", "n", "f">>
NegInf == <<"-">> \o Inf

DigitChars == <<"0", "1", "2", "3", "4", "5", "6", "7", "8", "9">>
IsDigit(c) == \E i \in 1 .. 10 : DigitChars[i] = c
DigitVal(c) == (CHOOSE i \in 1 .. 10 : DigitChars[i] = c) - 1

RECURSIVE IntOf(_)
IntOf(ds) ==
    IF ds = <<>> THEN 0
    ELSE IntOf(SubSeq(ds, 1, Len(ds) - 1)) * 10 + DigitVal(ds[Len(ds)])

RECURSIVE Pow10(_)
Pow10(k) == IF k = 0 THEN 1 ELSE 10 * Pow10(k - 1)

\* the outcome of float(...): exc is the exception raised ("" for none),
\* kind is "finite", "nan" or "inf"
Finite(q) == [exc |-> "", kind |-> "finite", val |-> q]
NonFinite(k) == [exc |-> "", kind |-> k, val |-> Zero]
FloatRaises(e) == [exc |-> e, kind |-> "", val |-> Zero]

\* float(str): [sign] digits [. digits] | [sign] nan | [sign] inf
ParseFloat(s) ==
    LET signed == s # <<>> /\ s[1] \in {"-", "+"}
        neg == signed /\ s[1] = "-"
        body == IF signed THEN SubSeq(s, 2, Len(s)) ELSE s
        dots == {i \in 1 .. Len(body) : body[i] = "."}
        digits == SelectSeq(body, IsDigit)
        frac == IF dots = {} THEN 0
                ELSE Len(body) - (CHOOSE i \in dots : TRUE)
        mag == Rat(IntOf(digits), Pow10(frac))
    IN  IF body = NaN THEN NonFinite("nan")
        ELSE IF body = Inf THEN NonFinite("inf")
        ELSE IF /\ digits # <<>>
                /\ Cardinality(dots) <= 1
                /\ Len(digits) + Cardinality(dots) = Len(body)
        THEN Finite(IF neg THEN RSub(Zero, mag) ELSE mag)
        ELSE FloatRaises("ValueError")

\* float(x)
ToFloat(v) ==
    CASE v.t = "int" -> Finite(v.q)
      [] v.t = "float" ->
            IF v.s = <<>> THEN Finite(v.q)
            ELSE IF v.s = NaN THEN NonFinite("nan") ELSE NonFinite("inf")
      [] v.t = "str" -> ParseFloat(v.s)
      [] OTHER -> FloatRaises("TypeError")

\* str(x), for the values float() rejects
Str(v) == IF v.t = "NoneType" THEN <<"N", "o", "n", "e">> ELSE v.s

\* round(val): to the nearest integer, ties to the even one
Round(q) ==
    LET f == q.n \div q.d
        twice == 2 * (q.n - f * q.d)
    IN  IF twice < q.d THEN f
        ELSE IF twice > q.d THEN f + 1
        ELSE IF f % 2 = 0 THEN f ELSE f + 1

RECURSIVE Digits(_)
Digits(k) ==
    IF k < 10 THEN <<DigitChars[k + 1]>>
    ELSE Digits(k \div 10) \o <<DigitChars[(k % 10) + 1]>>

RECURSIVE Group(_)
Group(ds) ==
    IF Len(ds) <= 3 THEN ds
    ELSE Group(SubSeq(ds, 1, Len(ds) - 3)) \o <<",">>
            \o SubSeq(ds, Len(ds) - 2, Len(ds))

\* f"{i:,.0f}"
FormatGrouped(i) ==
    (IF i < 0 THEN <<"-">> ELSE <<>>) \o Group(Digits(Abs(i)))

Replace(s, a, b) == [i \in DOMAIN s |-> IF s[i] = a THEN b ELSE s[i]]

Returns(s) == [raised |-> "", out |-> s]
Raises(e) == [raised |-> e, out |-> <<>>]

fmt_rp(v) ==
    LET f == ToFloat(v)
    IN  IF f.exc \in {"ValueError", "TypeError"} THEN Returns(Str(v))
        ELSE IF f.kind = "nan" THEN Raises("ValueError")
        ELSE IF f.kind = "inf" THEN Raises("OverflowError")
        ELSE Returns(Replace(<<"R", "p">> \o FormatGrouped(Round(f.val)),
                             ",", "."))

(* ------------- SpecFmt: fmt_rp on drawn arguments --------------------- *)
Magnitudes == {0, 1, 5, 12, 999, 1000, 1001, 1234, 12345, 999999, 1000000,
               1234567}
IntInputs == {PyInt(m) : m \in Magnitudes} \cup {PyInt(-m) : m \in Magnitudes}
FloatInputs ==
    {PyFloat(Rat(m, 2)) : m \in Magnitudes}
        \cup {PyFloat(Rat(-m, 2)) : m \in Magnitudes}
        \cup {PyFloat(Rat(m, 3)) : m \in Magnitudes}
        \cup {PyNonFinite(NaN), PyNonFinite(Inf), PyNonFinite(NegInf)}
StrInputs ==
    {PyStr(s) : s \in {<<"a", "b", "c">>, <<>>, NaN, Inf, NegInf,
                        <<"1", "2">>, <<"-", "7">>, <<"2", ".", "5">>,
                        <<"1", ".", "2", ".", "3">>, <<"R", "p", "1">>}}
FmtInputs == IntInputs \cup FloatInputs \cup StrInputs \cup {PyNone}

NoReturn == [raised |-> "", out |-> <<>>]

FmtIdle ==
    /\ fmt_pc = "idle"
    /\ fmt_arg = PyNone
    /\ fmt_ret = NoReturn

FmtInit ==
    /\ fmt_pc = "call"
    /\ fmt_arg \in FmtInputs
    /\ fmt_ret = NoReturn

Call_fmt_rp ==
    /\ fmt_pc = "call"
    /\ fmt_ret' = fmt_rp(fmt_arg)
    /\ fmt_pc' = "returned"
    /\ UNCHANGED fmt_arg

\* the caller formats its next value
NextValue ==
    /\ fmt_pc = "returned"
    /\ fmt_arg' \in FmtInputs
    /\ fmt_ret' = NoReturn
    /\ fmt_pc' = "call"

FmtNext ==
    \/ Call_fmt_rp
    \/ NextValue

(* ------------- Spec: one run of the script, and reruns ---------------- *)
\* slider positions drawn for "Return (%)" (0.0 .. 50.0)
PercentSet == {FromInt(0), FromInt(25), FromInt(50)}

\* r_month from the slider and the "Periode return" radio
MonthlyRate(choice, percent) ==
    IF choice = "Per Bulan" THEN RDiv(percent, FromInt(100))
    ELSE RDiv(RDiv(percent, FromInt(100)), FromInt(12))

NoTable == [shown |-> FALSE, rows |-> <<>>]
NoMetrics == <<>>

\* nothing of the run has executed yet
AtStart ==
    /\ pc = "start"
    /\ P = 0
    /\ durasi_unit = "Tahun"
    /\ years = 0
    /\ months = 0
    /\ period_choice = "Per Tahun"
    /\ r_percent = Zero
    /\ is_due = FALSE
    /\ r_month = Zero
    /\ FV = Zero
    /\ principal = 0
    /\ interest = Zero
    /\ metrics = NoMetrics
    /\ records = <<>>
    /\ df_yearly = NoTable
    /\ progress = <<>>
    /\ df_progress_tbl = <<>>

\* the widgets of the second column and the deposit field
OtherWidgets(dep, choice, percent, due) ==
    /\ P' = dep
    /\ period_choice' = choice
    /\ r_percent' = percent
    /\ is_due' = due

\* duration entered in years: months = int(years * 12)
Widgets_Tahun ==
    /\ pc = "start"
    /\ \E dep \in 0 .. MaxP, yrs \in 1 .. MaxYears, due \in BOOLEAN,
          choice \in {"Per Bulan", "Per Tahun"}, percent \in PercentSet :
            /\ Representable(MonthlyRate(choice, percent), yrs * 12)
            /\ OtherWidgets(dep, choice, percent, due)
            /\ durasi_unit' = "Tahun"
            /\ years' = yrs
            /\ months' = yrs * 12
    /\ pc' = "convert"
    /\ UNCHANGED <<r_month, FV, principal, interest, metrics, records,
                   df_yearly, progress, df_progress_tbl>>

\* duration entered in months: years = months // 12
Widgets_Bulan ==
    /\ pc = "start"
    /\ \E dep \in 0 .. MaxP, mths \in 1 .. MaxMonths, due \in BOOLEAN,
          choice \in {"Per Bulan", "Per Tahun"}, percent \in PercentSet :
            /\ Representable(MonthlyRate(choice, percent), mths)
            /\ OtherWidgets(dep, choice, percent, due)
            /\ durasi_unit' = "Bulan"
            /\ months' = mths
            /\ years' = mths \div 12
    /\ pc' = "convert"
    /\ UNCHANGED <<r_month, FV, principal, interest, metrics, records,
                   df_yearly, progress, df_progress_tbl>>

\* Konversi ke suku bunga bulanan
ConvertRate ==
    /\ pc = "convert"
    /\ r_month' = MonthlyRate(period_choice, r_percent)
    /\ pc' = "compute"
    /\ UNCHANGED <<P, durasi_unit, years, months, period_choice, r_percent,
                   is_due, FV, principal, interest, metrics, records,
                   df_yearly, progress, df_progress_tbl>>

\* Hasil Ringkas: FV, principal, interest and the three metrics
Compute ==
    /\ pc = "compute"
    /\ LET fv == fv_annuity(FromInt(P), r_month, months, is_due)
           pr == P * months
           it == RSub(fv, FromInt(pr))
       IN  /\ FV' = fv
           /\ principal' = pr
           /\ interest' = it
           /\ metrics' = <<fmt_rp(PyInt(pr)), fmt_rp(PyFloat(fv)),
                           fmt_rp(PyFloat(it))>>
    /\ pc' = "if_years"
    /\ UNCHANGED <<P, durasi_unit, years, months, period_choice, r_percent,
                   is_due, r_month, records, df_yearly, progress,
                   df_progress_tbl>>

\* if years >= 1: records = []
IfYears ==
    /\ pc = "if_years"
    /\ pc' = IF years >= 1 THEN "for_y" ELSE "progress"
    /\ records' = <<>>
    /\ UNCHANGED <<P, durasi_unit, years, months, period_choice, r_percent,
                   is_due, r_month, FV, principal, interest, metrics,
                   df_yearly, progress, df_progress_tbl>>

\* mutant: the record of year y is valued at y periods
YearRecord_y(y) ==
    LET fv_y == fv_annuity(FromInt(P), r_month, y, is_due)
        principal_y == P * y
    IN  [Tahun |-> y, SetoranKumulatif |-> principal_y, FutureValue |-> fv_y,
         BungaReturn |-> RSub(fv_y, FromInt(principal_y))]

\* the record of year y
YearRecord(y) ==
    LET m == y * 12
        fv_y == fv_annuity(FromInt(P), r_month, m, is_due)
        principal_y == P * m
    IN  [Tahun |-> y, SetoranKumulatif |-> principal_y, FutureValue |-> fv_y,
         BungaReturn |-> RSub(fv_y, FromInt(principal_y))]

\* one iteration of: for y in range(1, years + 1)
YearlyStep ==
    /\ pc = "for_y"
    /\ Len(records) < years
    /\ records' = Append(records, YearRecord(Len(records) + 1))
    /\ UNCHANGED <<pc, P, durasi_unit, years, months, period_choice,
                   r_percent, is_due, r_month, FV, principal, interest,
                   metrics, df_yearly, progress, df_progress_tbl>>

\* the loop is over: df_yearly = pd.DataFrame(records) is displayed
YearlyShow ==
    /\ pc = "for_y"
    /\ Len(records) = years
    /\ df_yearly' = [shown |-> TRUE, rows |-> records]
    /\ pc' = "progress"
    /\ UNCHANGED <<P, durasi_unit, years, months, period_choice, r_percent,
                   is_due, r_month, FV, principal, interest, metrics,
                   records, progress, df_progress_tbl>>

\* mutant: range(0, months) instead of range(1, months + 1)
ProgressList_fromzero(k) ==
    [m \in 1 .. k |-> fv_annuity(FromInt(P), r_month, m - 1, is_due)]

\* [fv_annuity(P, r_month, m, due=is_due) for m in range(1, k + 1)]
ProgressList(k) ==
    [m \in 1 .. k |-> fv_annuity(FromInt(P), r_month, m, is_due)]

\* progress, the series of the chart
Progress ==
    /\ pc = "progress"
    /\ progress' = ProgressList(months)
    /\ pc' = "table"
    /\ UNCHANGED <<P, durasi_unit, years, months, period_choice, r_percent,
                   is_due, r_month, FV, principal, interest, metrics,
                   records, df_yearly, df_progress_tbl>>

\* mutant: the interest column is not reduced by the deposits
MonthRow_gross(i) ==
    [Bulan |-> i, FutureValue |-> progress[i], SetoranKumulatif |-> i * P,
     BungaReturn |-> progress[i]]

\* row i of df_progress_tbl
MonthRow(i) ==
    [Bulan |-> i, FutureValue |-> progress[i], SetoranKumulatif |-> i * P,
     BungaReturn |-> RSub(progress[i], FromInt(i * P))]

\* Tabel Per Bulan
MonthlyTable ==
    /\ pc = "table"
    /\ df_progress_tbl' = [i \in 1 .. Len(progress) |-> MonthRow(i)]
    /\ pc' = "done"
    /\ UNCHANGED <<P, durasi_unit, years, months, period_choice, r_percent,
                   is_due, r_month, FV, principal, interest, metrics,
                   records, df_yearly, progress>>

\* a widget changes: the script runs again from the top
Rerun ==
    /\ pc = "done"
    /\ pc' = "start"
    /\ P' = 0
    /\ durasi_unit' = "Tahun"
    /\ years' = 0
    /\ months' = 0
    /\ period_choice' = "Per Tahun"
    /\ r_percent' = Zero
    /\ is_due' = FALSE
    /\ r_month' = Zero
    /\ FV' = Zero
    /\ principal' = 0
    /\ interest' = Zero
    /\ metrics' = NoMetrics
    /\ records' = <<>>
    /\ df_yearly' = NoTable
    /\ progress' = <<>>
    /\ df_progress_tbl' = <<>>

(* ------------------------ specifications ------------------------------ *)
Init == AtStart /\ FVIdle /\ FmtIdle

Next ==
    \/ /\ \/ Widgets_Tahun
          \/ Widgets_Bulan
          \/ ConvertRate
          \/ Compute
          \/ IfYears
          \/ YearlyStep
          \/ YearlyShow
          \/ Progress
          \/ MonthlyTable
          \/ Rerun
       /\ UNCHANGED <<fvVars, fmtVars>>

Spec == Init /\ [][Next]_vars

InitFV == AtStart /\ FVInit /\ FmtIdle
NextFV == FVNext /\ UNCHANGED <<scriptVars, fmtVars>>
SpecFV == InitFV /\ [][NextFV]_vars

InitFmt == AtStart /\ FVIdle /\ FmtInit
NextFmt == FmtNext /\ UNCHANGED <<scriptVars, fvVars>>
SpecFmt == InitFmt /\ [][NextFmt]_vars

(* ---------------------- properties: the helpers ----------------------- *)
Applied == fv_pc = "applied"
OrdinaryReturned == fv_pc \in {"annuity", "applied"}
OnePlusR == RAdd(One, args.r)

\* C1: with r = 0 and P >= 0, fv_annuity_ordinary returns exactly P * n and
\* raises no ZeroDivisionError (the division by r is not evaluated).
C1_ZeroRateIsPTimesN ==
    (OrdinaryReturned /\ args.r = Zero /\ args.P.n >= 0) =>
        /\ ~IsRaised(ret_ordinary)
        /\ ret_ordinary = Rat(args.P.n * args.n, args.P.d)

C1_Witness ==
    /\ Applied
    /\ args.r = Zero
    /\ args.P = FromInt(2)
    /\ args.n = 3
    /\ ret_ordinary = FromInt(6)

\* C2: for every P, r > 0 and n >= 1, fv_annuity with due = TRUE is the
\* ordinary value times (1 + r), and with due = FALSE it is the ordinary
\* value unchanged.
C2_DueIsOrdinaryTimesOnePlusR ==
    (Applied /\ args.r.n > 0) =>
        /\ ret_fv[TRUE] = RMul(ret_ordinary, OnePlusR)
        /\ ret_fv[FALSE] = ret_ordinary

C2_Witness ==
    /\ Applied
    /\ args.r = Rat(1, 2)
    /\ args.P = FromInt(2)
    /\ args.n = 2
    /\ ret_ordinary = FromInt(5)
    /\ ret_fv[TRUE] = Rat(15, 2)

C4_StrictlyIncreasing_Claimed ==
    (Applied /\ args.n >= 2 /\ args.r.n > 0 /\ args.P.n >= 0) =>
        \A due \in BOOLEAN : RLt(prev_fv[due], ret_fv[due])

\* C4 as amended: for P > 0 and r > 0, in either timing mode, the value at
\* n + 1 periods is strictly above the value at n periods; for P = 0 the
\* value is 0 at every n.
C4_StrictlyIncreasing ==
    (Applied /\ args.n >= 2 /\ args.r.n > 0) =>
        /\ args.P.n > 0 => \A due \in BOOLEAN : RLt(prev_fv[due], ret_fv[due])
        /\ args.P.n = 0 =>
                \A due \in BOOLEAN : prev_fv[due] = Zero /\ ret_fv[due] = Zero

C4_Witness ==
    /\ Applied
    /\ args.n = 3
    /\ args.r = Rat(1, 2)
    /\ args.P = FromInt(1)
    /\ prev_fv[FALSE] = Rat(5, 2)
    /\ ret_fv[FALSE] = Rat(19, 4)

\* C5: for P >= 0 and r >= 0 (zero included), the annuity-due value is never
\* below the ordinary value.
C5_DueAtLeastOrdinary ==
    (Applied /\ args.P.n >= 0 /\ args.r.n >= 0) =>
        RLe(ret_fv[FALSE], ret_fv[TRUE])

C5_Witness ==
    /\ Applied
    /\ args.P.n > 0
    /\ args.r.n > 0
    /\ args.n >= 2
    /\ RLt(ret_fv[FALSE], ret_fv[TRUE])

\* C10: for P >= 0 and r >= 0 the closed forms satisfy the step-by-step
\* accumulation: FV(1) = P, FV(n+1) = FV(n) * (1 + r) + P for the ordinary
\* annuity; FVdue(1) = P * (1 + r), FVdue(n+1) = (FVdue(n) + P) * (1 + r)
\* for the annuity due.
C10_ClosedFormIsRecurrence ==
    (Applied /\ args.P.n >= 0 /\ args.r.n >= 0) =>
        IF args.n = 1
        THEN /\ ret_fv[FALSE] = args.P
             /\ ret_fv[TRUE] = RMul(args.P, OnePlusR)
        ELSE /\ ret_fv[FALSE] = RAdd(RMul(prev_fv[FALSE], OnePlusR), args.P)
             /\ ret_fv[TRUE] = RMul(RAdd(prev_fv[TRUE], args.P), OnePlusR)

C10_Witness ==
    /\ Applied
    /\ args.n = 4
    /\ args.r = Rat(1, 10)
    /\ args.P = FromInt(3)
    /\ prev_fv[TRUE] # ret_fv[TRUE]
    /\ ret_fv[FALSE] = RAdd(RMul(prev_fv[FALSE], Rat(11, 10)), FromInt(3))

(* --------------------- properties: the script run --------------------- *)
Done == pc = "done"
CompleteYears == months \div 12
ClosedForm(k) == fv_annuity(FromInt(P), r_month, k, is_due)

\* C6: the per-month progression has exactly months entries; the per-year
\* table has exactly months \div 12 rows, the last one valued at
\* (months \div 12) * 12 periods, and is omitted below 12 months; in "Tahun"
\* mode months = years * 12 and in "Bulan" mode years = months \div 12.
C6_ProgressionLength ==
    Done =>
        /\ months \in 1 .. 600
        /\ Len(progress) = months
        /\ Len(df_progress_tbl) = months
        /\ years = CompleteYears
        /\ durasi_unit = "Tahun" => months = years * 12
        /\ df_yearly.shown <=> months >= 12
        /\ Len(df_yearly.rows) = CompleteYears
        /\ df_yearly.shown =>
                LET last == df_yearly.rows[Len(df_yearly.rows)]
                IN  /\ last.Tahun = CompleteYears
                    /\ last.SetoranKumulatif = P * (CompleteYears * 12)
                    /\ last.FutureValue = ClosedForm(CompleteYears * 12)

C6_Witness ==
    /\ Done
    /\ durasi_unit = "Bulan"
    /\ months = 25
    /\ P = 2
    /\ Len(progress) = 25
    /\ Len(df_yearly.rows) = 2
    /\ df_yearly.rows[2].SetoranKumulatif = 48

\* C7: in the summary and in every row of the per-year and per-month
\* tables, principal is the deposit times the row's period count, interest
\* is future value minus principal, and principal + interest is the future
\* value.
C7_PrincipalPlusInterest ==
    Done =>
        /\ principal = P * months
        /\ interest = RSub(FV, FromInt(principal))
        /\ RAdd(FromInt(principal), interest) = FV
        /\ \A i \in DOMAIN df_yearly.rows :
                LET row == df_yearly.rows[i]
                IN  /\ row.SetoranKumulatif = P * (12 * row.Tahun)
                    /\ row.BungaReturn =
                            RSub(row.FutureValue, FromInt(row.SetoranKumulatif))
                    /\ RAdd(FromInt(row.SetoranKumulatif), row.BungaReturn)
                            = row.FutureValue
        /\ \A i \in DOMAIN df_progress_tbl :
                LET row == df_progress_tbl[i]
                IN  /\ row.SetoranKumulatif = P * row.Bulan
                    /\ row.BungaReturn =
                            RSub(row.FutureValue, FromInt(row.SetoranKumulatif))
                    /\ RAdd(FromInt(row.SetoranKumulatif), row.BungaReturn)
                            = row.FutureValue

C7_Witness ==
    /\ Done
    /\ P = 3
    /\ r_month = Rat(1, 2)
    /\ months = 13
    /\ df_yearly.shown
    /\ principal = 39
    /\ RLt(Zero, interest)
    /\ RLt(Zero, df_progress_tbl[13].BungaReturn)

\* C9: the i-th per-month entry has index i and the closed-form value at i
\* periods, the y-th per-year row has the closed-form value at 12 * y
\* periods, and the last per-month entry is the summary future value.
C9_EntriesFromClosedForm ==
    Done =>
        /\ \A i \in 1 .. months :
                /\ progress[i] = ClosedForm(i)
                /\ df_progress_tbl[i].Bulan = i
                /\ df_progress_tbl[i].FutureValue = ClosedForm(i)
        /\ \A y \in DOMAIN df_yearly.rows :
                /\ df_yearly.rows[y].Tahun = y
                /\ df_yearly.rows[y].FutureValue = ClosedForm(12 * y)
        /\ progress[months] = FV
        /\ FV = ClosedForm(months)

C9_Witness ==
    /\ Done
    /\ P = 1
    /\ is_due
    /\ r_month = Rat(1, 2)
    /\ months = 14
    /\ Len(df_yearly.rows) = 1
    /\ progress[2] = Rat(15, 4)
    /\ progress[14] = FV

(* ------------------------ properties: fmt_rp --------------------------- *)
Returned == fmt_pc = "returned"

\* the argument is no usable number: float() rejects it, or gives a
\* non-finite float
Unusable(v) == ToFloat(v).exc # "" \/ ToFloat(v).kind # "finite"

\* s is "Rp", an optional sign, and the digits of |i| with a "." before
\* every block of three digits counted from the right
IsGroupedRendering(s, i) ==
    /\ Len(s) >= 3
    /\ s[1] = "R" /\ s[2] = "p"
    /\ LET body == SubSeq(s, 3, Len(s))
           lead == IF i < 0 THEN 1 ELSE 0
       IN  /\ SelectSeq(body, IsDigit) = Digits(Abs(i))
           /\ i < 0 => body[1] = "-"
           /\ \A k \in lead + 1 .. Len(body) :
                   IF (Len(body) - k) % 4 = 3 THEN body[k] = "."
                   ELSE IsDigit(body[k])

\* C8: fmt_rp never raises; a usable number is rendered as the rounded,
\* thousands-grouped integer, and anything else (a non-numeric string, None,
\* a value converting to nan or inf) comes back as its own string.
C8_NeverRaises ==
    Returned =>
        /\ fmt_ret.raised = ""
        /\ Unusable(fmt_arg) => fmt_ret.out = Str(fmt_arg)
        /\ ~Unusable(fmt_arg) =>
                IsGroupedRendering(fmt_ret.out, Round(ToFloat(fmt_arg).val))

\* what does hold: a finite number is rendered grouped, a value float()
\* rejects comes back as its own string, and nan and inf raise
FmtActualBehaviour ==
    Returned =>
        LET f == ToFloat(fmt_arg)
        IN  /\ f.exc # "" => fmt_ret = Returns(Str(fmt_arg))
            /\ (f.exc = "" /\ f.kind = "finite") =>
                    /\ fmt_ret.raised = ""
                    /\ IsGroupedRendering(fmt_ret.out, Round(f.val))
            /\ f.kind = "nan" => fmt_ret.raised = "ValueError"
            /\ f.kind = "inf" => fmt_ret.raised = "OverflowError"

=============================================================================
